---- MODULE Spec2Model ----
(***************************************************************************)
(* Model of src/ab/ai-flow-webhook.py: the sipgate AI Flow webhook         *)
(* (answering machine).  The state is the module-level session store, its  *)
(* lock, the dict objects the store refers to, and for every worker the    *)
(* position inside FlowHandler.handle_event with its local variables.      *)
(* Python dicts are functions whose DOMAIN is the set of keys present;     *)
(* dict objects live in a heap because handlers keep references to them    *)
(* after the lock is released.                                             *)
(***************************************************************************)
EXTENDS Integers, Sequences, FiniteSets, TLC

\* ------------------------------------------------------------- bounds
MaxEvents == 5
MaxEventsTwo == 4
MaxMsgs == 2
MaxRequests == 4
MaxSparse == 3
MaxStream == 3

\* ------------------------------------------------------------- constants
GreetingTimeout == 30
RepromptTimeout == 15

GREETING == "Hallo, hier ist der Anrufbeantworter von YuzuHub. ..."
THANKS == "Danke fuer deine Nachricht. Wir melden uns so bald wie moeglich. Tschuess!"
REPROMPT == "Hallo? Wenn du eine Nachricht hinterlassen moechtest, sprich einfach los."
Unbekannt == "unbekannt"

NoBeep == "None"
BeepB64 == "UklGRiQAAABXQVZF"

Workers == {"w1", "w2"}
MainThread == "w1"
NoWorker == "free"

SessionIds == {"s1", "s2"}
Callers == {"+491701234567"}
Space == " "
Texts == {<<Space>>, <<Space, "A">>, <<"B", Space>>}

NoObj == 0
ObjIds == 1..(Cardinality(SessionIds) + Cardinality(Workers) + 1)

\* ------------------------------------------------------------- dicts
\* dict.get(k, default)
Get(d, k, default) == IF k \in DOMAIN d THEN d[k] ELSE default

\* d[k] = v
Put(d, k, v) == [x \in DOMAIN d \cup {k} |-> IF x = k THEN v ELSE d[x]]

\* (mutation: the key is read but not removed)
WithoutRemoving(d, k) == d

\* d.pop(k) seen from the dict: the dict without the key
Without(d, k) == [x \in DOMAIN d \ {k} |-> d[x]]

\* obj.get(k, default) through a reference; NoObj is the literal {} default
DGet(h, o, k, default) == IF o = NoObj THEN default ELSE Get(h[o], k, default)

\* str.strip(): drop leading and trailing whitespace
RECURSIVE LStrip(_)
LStrip(t) == IF t # <<>> /\ Head(t) = Space THEN LStrip(Tail(t)) ELSE t

RECURSIVE RStrip(_)
RStrip(t) ==
  IF t # <<>> /\ t[Len(t)] = Space THEN RStrip(SubSeq(t, 1, Len(t) - 1)) ELSE t

\* (mutation: only the leading whitespace is dropped)
StripLeadingOnly(t) == LStrip(t)

Strip(t) == RStrip(LStrip(t))

\* ------------------------------------------------------------- events
\* The JSON events of the platform; a key that is not in DOMAIN is missing.
StartEvents(S) ==
  {[type |-> "session_start", session |-> [id |-> s, from_phone_number |-> c]] :
     s \in S, c \in Callers}
  \cup {[type |-> "session_start", session |-> [id |-> s]] : s \in S}

SpeakEvents(S) ==
  {[type |-> "user_speak", session |-> [id |-> s], text |-> t] : s \in S, t \in Texts}
  \cup {[type |-> "user_speak", session |-> [id |-> s]] : s \in S}

OtherEvents(S) ==
  {[type |-> ty, session |-> [id |-> s]] :
     ty \in {"user_input_timeout", "session_end", "assistant_speak",
             "assistant_speech_ended", "barge_in"},
     s \in S}

Events(S) == StartEvents(S) \cup SpeakEvents(S) \cup OtherEvents(S)

\* (mutation: assistant_speak is handled as session_end)
EventTypeSpeakEnds(e) ==
  IF Get(e, "type", "") = "assistant_speak" THEN "session_end" ELSE Get(e, "type", "")
\* (mutation: user_input_timeout is handled as session_end)
EventTypeTimeoutEnds(e) ==
  IF Get(e, "type", "") = "user_input_timeout" THEN "session_end" ELSE Get(e, "type", "")
EventType(e) == Get(e, "type", "")

\* (mutation: every event is filed under one id)
SessionIdShared(e) == "s1"

SessionId(e) == Get(Get(e, "session", [none |-> 0]), "id", "")
EventText(e) == Strip(Get(e, "text", <<>>))
\* (mutation: a missing from_phone_number defaults to the empty string)
EventCallerBlank(e) == Get(Get(e, "session", [none |-> 0]), "from_phone_number", "")
EventCaller(e) == Get(Get(e, "session", [none |-> 0]), "from_phone_number", Unbekannt)

\* ------------------------------------------------------------- actions
\* what handle_event returns
None == [type |-> "none"]
Raised == [type |-> "KeyError"]
SpeakGreeting(sid) ==
  [type |-> "speak", session_id |-> sid, text |-> GREETING,
   user_input_timeout_seconds |-> GreetingTimeout]
SpeakThanks(sid) == [type |-> "speak", session_id |-> sid, text |-> THANKS]
\* (mutation: the re-prompt keeps the greeting's timeout)
SpeakRepromptLong(sid) ==
  [type |-> "speak", session_id |-> sid, text |-> REPROMPT,
   user_input_timeout_seconds |-> GreetingTimeout]

SpeakReprompt(sid) ==
  [type |-> "speak", session_id |-> sid, text |-> REPROMPT,
   user_input_timeout_seconds |-> RepromptTimeout]
Audio(sid, blob) == [type |-> "audio", session_id |-> sid, audio |-> blob]

\* ------------------------------------------------------------- state
VARIABLES
  BEEP_AUDIO,       \* the beep blob read at import time, NoBeep when the file is missing
  sessions,         \* the module-level dict: session id -> reference to its record
  heap,             \* reference -> dict object (caller, messages, beeped, thanked)
  lock,             \* sessions_lock: the worker holding it, or NoWorker
  pc,               \* worker -> position inside do_POST / handle_event
  ev,               \* worker -> the event being handled
  data,             \* worker -> local `data` (a reference; `messages` is its list)
  caller,           \* worker -> local `caller`
  already_thanked,  \* worker -> local `already_thanked`
  reply,            \* worker -> what handle_event returned to do_POST last
  notified,         \* the calls of notify_clawdbot so far, in order
  served,           \* number of requests accepted so far
  inflight,         \* requests sent by the platform and not yet accepted (scenarios)
  hist,             \* per session id: what has been processed for it (observation only)
  entry,            \* worker -> the record and the notify count at entry (observation only)
  SECRET,           \* FLOW_SECRET read at import time, "" when it is not set
  status,           \* worker -> the HTTP status do_POST sent for its request
  delivery          \* how the notify call of the request under way ended

vars == <<BEEP_AUDIO, sessions, heap, lock, pc, ev, data, caller, already_thanked,
          reply, notified, served, inflight, hist, entry, SECRET, status, delivery>>

NoEvent == [type |-> "idle"]
EmptyStore == [s \in {} |-> NoObj]
EmptyHeap == [o \in {} |-> NoEvent]

\* a record as session_start writes it, and as the lazy creation writes it
StartRecordBeeped(c) == [caller |-> c, messages |-> <<>>, beeped |-> TRUE]
StartRecord(c) == [caller |-> c, messages |-> <<>>, beeped |-> FALSE]
LazyRecord == [caller |-> Unbekannt, messages |-> <<>>]

\* the smallest reference that is not in use
Fresh(h) ==
  CHOOSE o \in ObjIds : o \notin DOMAIN h /\ \A p \in ObjIds : p < o => p \in DOMAIN h

\* reference counting: an object nobody refers to any more is freed
Collect(h, sess, dat) ==
  LET live == {sess[s] : s \in DOMAIN sess} \cup {dat[w] : w \in Workers}
  IN  [o \in DOMAIN h \cap live |-> h[o]]

\* the record of session id s as the store holds it, NoEvent when there is none
RecordOf(sess, h, s) == IF s \in DOMAIN sess THEN h[sess[s]] ELSE NoEvent

\* ------------------------------------------------------------- observation
NoHist ==
  [spoke |-> FALSE, ended |-> FALSE, heard |-> <<>>, received |-> {}, run |-> <<>>]

Last2(q) == IF Len(q) > 2 THEN SubSeq(q, Len(q) - 1, Len(q)) ELSE q

\* what the processing of event e with reply a adds to the history of its id;
\* `before` is the beeped flag an assistant_speech_ended found
Observe(h, e, a, before) ==
  LET s == SessionId(e)
      o == h[s]
      t == EventType(e)
  IN  IF s \notin DOMAIN h THEN h
      ELSE [h EXCEPT ![s] =
        IF t = "user_speak" THEN
          [o EXCEPT !.spoke = o.spoke \/ EventText(e) # <<>>,
                    !.heard = IF EventText(e) # <<>> THEN Append(o.heard, EventText(e))
                              ELSE o.heard,
                    !.received = o.received \cup {EventText(e)},
                    !.run = <<>>]
        ELSE IF t = "session_end" THEN
          [o EXCEPT !.ended = TRUE, !.heard = <<>>, !.run = <<>>]
        ELSE IF t = "assistant_speech_ended" THEN
          [o EXCEPT !.run = Last2(Append(o.run, [type |-> a.type, before |-> before]))]
        ELSE [o EXCEPT !.run = <<>>]]

NoEntry == [rec |-> NoEvent, n |-> 0]

\* FLOW_SECRET: not set, or set
NoSecret == ""
Secrets == {NoSecret, "geheim"}

\* the response of do_POST: none yet, a status, or none at all because the
\* handler raised
NoStatus == "none"
Failed == "exception"

\* urlopen in notify_clawdbot: answered 2xx, answered with an error status,
\* timed out after 5 seconds, or could not connect
NoDelivery == "none"
Outcomes == {"delivered", "rejected", "timed out", "connection error"}

\* ------------------------------------------------------------- initial state
Init ==
  /\ BEEP_AUDIO \in {NoBeep, BeepB64}
  /\ sessions = EmptyStore
  /\ heap = EmptyHeap
  /\ lock = NoWorker
  /\ pc = [w \in Workers |-> "idle"]
  /\ ev = [w \in Workers |-> NoEvent]
  /\ data = [w \in Workers |-> NoObj]
  /\ caller = [w \in Workers |-> ""]
  /\ already_thanked = [w \in Workers |-> FALSE]
  /\ reply = [w \in Workers |-> None]
  /\ notified = <<>>
  /\ served = 0
  /\ inflight = <<>>
  /\ hist = [s \in SessionIds |-> NoHist]
  /\ entry = [w \in Workers |-> NoEntry]
  /\ SECRET = NoSecret
  /\ status = [w \in Workers |-> NoStatus]
  /\ delivery = NoDelivery

\* ------------------------------------------------------------- steps
\* do_POST after handle_event: 200 with the action as body `if action`, else
\* 204; no response when handle_event raised
StatusOf(a) == IF a = Raised THEN Failed ELSE IF a = None THEN "204" ELSE "200"

\* `return a` of handle_event: the locals die, do_POST gets the action
Return(w, a, before) ==
  /\ pc' = [pc EXCEPT ![w] = "idle"]
  /\ reply' = [reply EXCEPT ![w] = a]
  /\ ev' = [ev EXCEPT ![w] = NoEvent]
  /\ caller' = [caller EXCEPT ![w] = ""]
  /\ already_thanked' = [already_thanked EXCEPT ![w] = FALSE]
  /\ data' = [data EXCEPT ![w] = NoObj]
  /\ hist' = Observe(hist, ev[w], a, before)
  /\ entry' = [entry EXCEPT ![w] = NoEntry]
  /\ status' = [status EXCEPT ![w] = StatusOf(a)]

\* (mutation: the messages are not passed on)
notify_clawdbot_empty(e, c, m) ==
  /\ notified' = Append(notified, [id |-> SessionId(e), by |-> EventType(e),
                                   caller |-> c, messages |-> <<>>])
  /\ delivery' \in Outcomes

\* (mutation: a delivery that failed is tried once more)
notify_clawdbot_retry(e, c, m) ==
  /\ delivery' \in Outcomes
  /\ LET n == [id |-> SessionId(e), by |-> EventType(e), caller |-> c, messages |-> m]
     IN  notified' = IF delivery' = "delivered" THEN Append(notified, n)
                     ELSE Append(Append(notified, n), n)

\* notify_clawdbot(c, m), called while handling event e (its id and type are
\* kept with the call for observation): one POST to the hook, whose outcome
\* is printed, an exception included, and nothing else
notify_clawdbot(e, c, m) ==
  /\ notified' = Append(notified, [id |-> SessionId(e), by |-> EventType(e),
                                   caller |-> c, messages |-> m])
  /\ delivery' \in Outcomes

\* the store's record of the event's id and the number of notify calls, as the
\* handler of e finds them
AtEntry(e) == [rec |-> RecordOf(sessions, heap, SessionId(e)), n |-> Len(notified)]

\* do_POST hands the decoded event to handle_event, which branches on its type
Dispatch(w, e) ==
  /\ pc[w] = "idle"
  /\ IF EventType(e) = "session_start" THEN
       /\ pc' = [pc EXCEPT ![w] = "ss_acq"]
       /\ ev' = [ev EXCEPT ![w] = e]
       /\ caller' = [caller EXCEPT ![w] = EventCaller(e)]
       /\ entry' = [entry EXCEPT ![w] = AtEntry(e)]
       /\ status' = [status EXCEPT ![w] = NoStatus]
       /\ UNCHANGED <<reply, hist, data, already_thanked>>
     ELSE IF EventType(e) \in {"user_speak", "user_input_timeout", "session_end",
                               "assistant_speech_ended"} THEN
       /\ pc' = [pc EXCEPT ![w] =
                   CASE EventType(e) = "user_speak" -> "us_acq"
                     [] EventType(e) = "user_input_timeout" -> "to_acq1"
                     [] EventType(e) = "session_end" -> "se_acq"
                     [] OTHER -> "ae_acq"]
       /\ ev' = [ev EXCEPT ![w] = e]
       /\ entry' = [entry EXCEPT ![w] = AtEntry(e)]
       /\ status' = [status EXCEPT ![w] = NoStatus]
       /\ UNCHANGED <<reply, hist, data, caller, already_thanked>>
     ELSE
       \* assistant_speak and every unrecognised type: return None
       /\ pc' = pc
       /\ reply' = [reply EXCEPT ![w] = None]
       /\ hist' = Observe(hist, e, None, FALSE)
       /\ status' = [status EXCEPT ![w] = StatusOf(None)]
       /\ UNCHANGED <<ev, data, caller, already_thanked, entry>>
  /\ delivery' = NoDelivery
  /\ UNCHANGED <<BEEP_AUDIO, SECRET, sessions, heap, lock, notified>>

\* (mutation: the lock is kept while notify_clawdbot runs)
ReleaseAfterNotify(w) ==
  lock' = IF pc[w] \in {"to_body2", "se_body"} THEN w ELSE NoWorker

\* the end of a `with sessions_lock:` block
Release(w) == lock' = NoWorker

\* `with sessions_lock:` entered
Acquire(w) ==
  /\ pc[w] \in {"ss_acq", "us_acq", "to_acq1", "to_acq2", "se_acq", "ae_acq"}
  /\ lock = NoWorker
  /\ lock' = w
  /\ pc' = [pc EXCEPT ![w] =
              CASE pc[w] = "ss_acq" -> "ss_body"
                [] pc[w] = "us_acq" -> "us_body"
                [] pc[w] = "to_acq1" -> "to_body1"
                [] pc[w] = "to_acq2" -> "to_body2"
                [] pc[w] = "se_acq" -> "se_body"
                [] OTHER -> "ae_body"]
  /\ UNCHANGED <<BEEP_AUDIO, SECRET, sessions, heap, ev, data, caller, already_thanked,
                 reply, status, notified, delivery, served, inflight, hist, entry>>

\* session_start: the record of the id is (over)written, the greeting is returned
session_start(w) ==
  /\ pc[w] = "ss_body" /\ lock = w
  /\ LET sid == SessionId(ev[w])
         o == Fresh(heap)
     IN  /\ sessions' = Put(sessions, sid, o)
         /\ Return(w, SpeakGreeting(sid), FALSE)
         /\ heap' = Collect(Put(heap, o, StartRecord(caller[w])), sessions', data')
  /\ Release(w)
  /\ UNCHANGED <<BEEP_AUDIO, SECRET, notified, delivery, served, inflight>>

\* user_speak: `if text: messages.append(text)`
AppendedAlone(messages, text) == IF text # <<>> THEN <<text>> ELSE messages
Appended(messages, text) == IF text # <<>> THEN Append(messages, text) ELSE messages

\* user_speak: lazy creation, then the stripped text is appended if not empty
user_speak(w) ==
  /\ pc[w] = "us_body" /\ lock = w
  /\ LET sid == SessionId(ev[w])
         text == EventText(ev[w])
         o == IF sid \in DOMAIN sessions THEN sessions[sid] ELSE Fresh(heap)
         h1 == IF sid \in DOMAIN sessions THEN heap ELSE Put(heap, o, LazyRecord)
         h2 == [h1 EXCEPT ![o] = Put(@, "messages", Appended(@.messages, text))]
     IN  /\ sessions' = Put(sessions, sid, o)
         /\ Return(w, None, FALSE)
         /\ heap' = Collect(h2, sessions', data')
  /\ Release(w)
  /\ UNCHANGED <<BEEP_AUDIO, SECRET, notified, delivery, served, inflight>>

\* user_input_timeout, first `with`: lazy creation, then data, messages and
\* already_thanked are read (messages is a reference to the record's list)
timeout_read(w) ==
  /\ pc[w] = "to_body1" /\ lock = w
  /\ LET sid == SessionId(ev[w])
         o == IF sid \in DOMAIN sessions THEN sessions[sid] ELSE Fresh(heap)
         h1 == IF sid \in DOMAIN sessions THEN heap ELSE Put(heap, o, LazyRecord)
     IN  /\ sessions' = Put(sessions, sid, o)
         /\ data' = [data EXCEPT ![w] = o]
         /\ already_thanked' = [already_thanked EXCEPT ![w] = Get(h1[o], "thanked", FALSE)]
         /\ heap' = Collect(h1, sessions', data')
  /\ Release(w)
  /\ pc' = [pc EXCEPT ![w] = "to_check"]
  /\ UNCHANGED <<BEEP_AUDIO, SECRET, ev, caller, reply, status, notified, delivery, served, inflight, hist, entry>>

\* (mutation: the thanked flag is not looked at)
ShouldThankAgain(messages, thanked) == messages # <<>>

\* `if messages and not already_thanked:`
ShouldThank(messages, thanked) == messages # <<>> /\ ~thanked

\* user_input_timeout, `if messages and not already_thanked: ... elif not messages:`
\* evaluated outside the lock on the list the local refers to
timeout_decide(w) ==
  /\ pc[w] = "to_check"
  /\ LET sid == SessionId(ev[w])
         messages == DGet(heap, data[w], "messages", <<>>)
     IN  IF ShouldThank(messages, already_thanked[w]) THEN
           /\ pc' = [pc EXCEPT ![w] = "to_acq2"]
           /\ UNCHANGED <<heap, ev, data, caller, already_thanked, reply, status, hist, entry>>
         ELSE
           /\ Return(w, IF messages = <<>> THEN SpeakReprompt(sid) ELSE None, FALSE)
           /\ heap' = Collect(heap, sessions, data')
  /\ UNCHANGED <<BEEP_AUDIO, SECRET, sessions, lock, notified, delivery, served, inflight>>

\* (mutation: the flag is not written)
ThankedNotWritten(d) == d

\* record["thanked"] = True
Thanked(d) == Put(d, "thanked", TRUE)

\* user_input_timeout, second `with`: sessions[session_id]["thanked"] = True,
\* a KeyError when the id is no longer in the store
timeout_mark(w) ==
  /\ pc[w] = "to_body2" /\ lock = w
  /\ LET sid == SessionId(ev[w])
     IN  IF sid \in DOMAIN sessions THEN
           /\ heap' = [heap EXCEPT ![sessions[sid]] = Thanked(@)]
           /\ pc' = [pc EXCEPT ![w] = "to_notify"]
           /\ UNCHANGED <<ev, data, caller, already_thanked, reply, status, hist, entry>>
         ELSE
           /\ Return(w, Raised, FALSE)
           /\ heap' = Collect(heap, sessions, data')
  /\ Release(w)
  /\ UNCHANGED <<BEEP_AUDIO, SECRET, sessions, notified, delivery, served, inflight>>

\* user_input_timeout: notify_clawdbot(data.get("caller", "unbekannt"), messages),
\* then the thank-you is returned
timeout_notify(w) ==
  /\ pc[w] = "to_notify"
  /\ LET sid == SessionId(ev[w])
     IN  /\ notify_clawdbot(ev[w], DGet(heap, data[w], "caller", Unbekannt),
                            DGet(heap, data[w], "messages", <<>>))
         /\ Return(w, SpeakThanks(sid), FALSE)
         /\ heap' = Collect(heap, sessions, data')
  /\ UNCHANGED <<BEEP_AUDIO, SECRET, sessions, lock, served, inflight>>

\* session_end, the `with`: the record is popped ({} when there is none) and
\* messages, caller and already_thanked are read; `if not already_thanked`
\* reads the local only
session_end(w) ==
  /\ pc[w] = "se_body" /\ lock = w
  /\ LET sid == SessionId(ev[w])
         o == IF sid \in DOMAIN sessions THEN sessions[sid] ELSE NoObj
     IN  /\ sessions' = Without(sessions, sid)
         /\ IF ~DGet(heap, o, "thanked", FALSE) THEN
              /\ data' = [data EXCEPT ![w] = o]
              /\ caller' = [caller EXCEPT ![w] = DGet(heap, o, "caller", Unbekannt)]
              /\ already_thanked' = [already_thanked EXCEPT ![w] = FALSE]
              /\ pc' = [pc EXCEPT ![w] = "se_notify"]
              /\ UNCHANGED <<ev, reply, status, hist, entry>>
            ELSE
              Return(w, None, FALSE)
         /\ heap' = Collect(heap, sessions', data')
  /\ Release(w)
  /\ UNCHANGED <<BEEP_AUDIO, SECRET, notified, delivery, served, inflight>>

\* session_end: notify_clawdbot(caller, messages), then None is returned
session_end_notify(w) ==
  /\ pc[w] = "se_notify"
  /\ notify_clawdbot(ev[w], caller[w], DGet(heap, data[w], "messages", <<>>))
  /\ Return(w, None, FALSE)
  /\ heap' = Collect(heap, sessions, data')
  /\ UNCHANGED <<BEEP_AUDIO, SECRET, sessions, lock, served, inflight>>

\* assistant_speech_ended: data = sessions.get(session_id, {}); the beep is
\* returned when data has no true "beeped" and the blob is there.  With no
\* record the flag is set on the temporary {} and lost.
speech_ended(w) ==
  /\ pc[w] = "ae_body" /\ lock = w
  /\ LET sid == SessionId(ev[w])
         o == IF sid \in DOMAIN sessions THEN sessions[sid] ELSE NoObj
         beeped == DGet(heap, o, "beeped", FALSE)
     IN  IF ~beeped /\ BEEP_AUDIO # NoBeep THEN
           /\ Return(w, Audio(sid, BEEP_AUDIO), beeped)
           /\ heap' = IF o = NoObj THEN heap
                      ELSE [heap EXCEPT ![o] = Put(@, "beeped", TRUE)]
         ELSE
           /\ Return(w, None, beeped)
           /\ heap' = heap
  /\ Release(w)
  /\ UNCHANGED <<BEEP_AUDIO, SECRET, sessions, notified, delivery, served, inflight>>

\* one step of a handler that is under way
Step(w) ==
  \/ Acquire(w)
  \/ session_start(w)
  \/ user_speak(w)
  \/ timeout_read(w)
  \/ timeout_decide(w)
  \/ timeout_mark(w)
  \/ timeout_notify(w)
  \/ session_end(w)
  \/ session_end_notify(w)
  \/ speech_ended(w)

\* ------------------------------------------------------------- the server
\* a request: the X-API-TOKEN header when it is sent, and the body, which is
\* a JSON object (an event), JSON of another kind, or no JSON at all
NotJson == [raw |-> "{\"type\": "]
NotObject == [raw |-> "[]"]
Request(e) == [body |-> e]
Requests(E) ==
  {[body |-> b] : b \in E \cup {NotJson, NotObject}}
  \cup {[token |-> t, body |-> b] : t \in {"geheim", "falsch"}, b \in E \cup {NotJson, NotObject}}

\* `if SECRET:` and the comparison of the X-API-TOKEN header with it
AuthorizedStrict(r) == Get(r, "token", "") = SECRET
Authorized(r) == SECRET = NoSecret \/ Get(r, "token", "") = SECRET

\* do_POST answers without calling handle_event
Respond(w, code) ==
  /\ pc[w] = "idle"
  /\ status' = [status EXCEPT ![w] = code]
  /\ delivery' = NoDelivery
  /\ UNCHANGED <<BEEP_AUDIO, SECRET, sessions, heap, lock, pc, ev, data, caller,
                 already_thanked, reply, notified, hist, entry>>

\* do_POST of request r on worker w: 401 when a secret is set and the token
\* differs, 400 when json.loads fails, else event.get(...) (an AttributeError
\* when the JSON is no object) and handle_event
do_POST(w, r) ==
  /\ served' = served + 1
  /\ IF ~Authorized(r) THEN Respond(w, "401")
     ELSE IF r.body = NotJson THEN Respond(w, "400")
     ELSE IF r.body = NotObject THEN Respond(w, Failed)
     ELSE Dispatch(w, r.body)
  /\ UNCHANGED inflight

\* HTTPServer.serve_forever: one request at a time, handled to completion on
\* the main thread before the next one is accepted
Serve ==
  /\ served < MaxEvents
  /\ \A w \in Workers : pc[w] = "idle"
  /\ \E e \in Events({"s1"}) : do_POST(MainThread, Request(e))

Next == Serve \/ \E w \in Workers : Step(w)

Spec == Init /\ [][Next]_vars

\* ------------------------------------------------------------- two calls
\* the same server with the events of two calls arriving in any order
CallEvents(S) ==
  {[type |-> "session_start", session |-> [id |-> s, from_phone_number |-> c]] :
     s \in S, c \in Callers}
  \cup {[type |-> "user_speak", session |-> [id |-> s], text |-> t] : s \in S, t \in Texts}
  \cup {[type |-> ty, session |-> [id |-> s]] :
          ty \in {"user_input_timeout", "session_end", "assistant_speech_ended"}, s \in S}

ServeTwo ==
  /\ served < MaxEventsTwo
  /\ \A w \in Workers : pc[w] = "idle"
  /\ \E e \in CallEvents(SessionIds) : do_POST(MainThread, Request(e))

NextTwo == ServeTwo \/ \E w \in Workers : Step(w)

SpecTwo == Init /\ [][NextTwo]_vars

\* ------------------------------------------------------------- the race
\* One user_input_timeout and one session_end for a call that has left a
\* message and was not thanked, each handled by a worker of its own
\* (thread per request), the handlers' steps interleaving freely.
Utterances == {Strip(t) : t \in Texts} \ {<<>>}
MessageLists == UNION {[1..n -> Utterances] : n \in 1..MaxMsgs}

\* the records a call that is listening can have: written by session_start or
\* lazily, beeped or not, with messages
ListeningRecords ==
  {[caller |-> c, messages |-> m, beeped |-> b] :
     c \in Callers \cup {Unbekannt}, m \in MessageLists, b \in BOOLEAN}
  \cup {[caller |-> Unbekannt, messages |-> m] : m \in MessageLists}

HistOf(r) ==
  [spoke |-> TRUE, ended |-> FALSE, heard |-> r.messages,
   received |-> {r.messages[i] : i \in 1..Len(r.messages)}, run |-> <<>>]

InitRace ==
  /\ BEEP_AUDIO \in {NoBeep, BeepB64}
  /\ \E r \in ListeningRecords :
       /\ Get(r, "beeped", FALSE) => BEEP_AUDIO # NoBeep
       /\ heap = [o \in {1} |-> r]
       /\ hist = [s \in SessionIds |-> IF s = "s1" THEN HistOf(r) ELSE NoHist]
  /\ sessions = [s \in {"s1"} |-> 1]
  /\ lock = NoWorker
  /\ pc = [w \in Workers |-> "idle"]
  /\ ev = [w \in Workers |-> NoEvent]
  /\ data = [w \in Workers |-> NoObj]
  /\ caller = [w \in Workers |-> ""]
  /\ already_thanked = [w \in Workers |-> FALSE]
  /\ reply = [w \in Workers |-> None]
  /\ notified = <<>>
  /\ served = 0
  /\ inflight = <<[type |-> "user_input_timeout", session |-> [id |-> "s1"]],
                  [type |-> "session_end", session |-> [id |-> "s1"]]>>
  /\ entry = [w \in Workers |-> NoEntry]
  /\ SECRET = NoSecret
  /\ status = [w \in Workers |-> NoStatus]
  /\ delivery = NoDelivery

\* a free worker accepts one of the requests in flight
Deliver(w) ==
  \E i \in 1..Len(inflight) :
    /\ Dispatch(w, inflight[i])
    /\ inflight' = SubSeq(inflight, 1, i - 1) \o SubSeq(inflight, i + 1, Len(inflight))
    /\ served' = served + 1

RaceStep(w) ==
  \/ Deliver(w)
  \/ Acquire(w)
  \/ timeout_read(w)
  \/ timeout_decide(w)
  \/ timeout_mark(w)
  \/ timeout_notify(w)
  \/ session_end(w)
  \/ session_end_notify(w)

NextRace == \E w \in Workers : RaceStep(w)

SpecRace == InitRace /\ [][NextRace]_vars

\* ------------------------------------------------------------- requests
\* the serial server with or without a secret, receiving requests with and
\* without a token, with bodies that are events, other JSON, or no JSON
InitHttp ==
  /\ BEEP_AUDIO \in {NoBeep, BeepB64}
  /\ sessions = EmptyStore
  /\ heap = EmptyHeap
  /\ lock = NoWorker
  /\ pc = [w \in Workers |-> "idle"]
  /\ ev = [w \in Workers |-> NoEvent]
  /\ data = [w \in Workers |-> NoObj]
  /\ caller = [w \in Workers |-> ""]
  /\ already_thanked = [w \in Workers |-> FALSE]
  /\ reply = [w \in Workers |-> None]
  /\ notified = <<>>
  /\ served = 0
  /\ inflight = <<>>
  /\ hist = [s \in SessionIds |-> NoHist]
  /\ entry = [w \in Workers |-> NoEntry]
  /\ SECRET \in Secrets
  /\ status = [w \in Workers |-> NoStatus]
  /\ delivery = NoDelivery

ServeHttp ==
  /\ served < MaxRequests
  /\ \A w \in Workers : pc[w] = "idle"
  /\ \E r \in Requests(CallEvents({"s1"})) : do_POST(MainThread, r)

NextHttp == ServeHttp \/ \E w \in Workers : Step(w)

SpecHttp == InitHttp /\ [][NextHttp]_vars

\* ------------------------------------------------------------- sparse events
\* events that lack the session object, the id in it, the caller in it, or
\* the text
Sparse(ty) ==
  {[type |-> ty],
   [type |-> ty, session |-> [from_phone_number |-> "+491701234567"]],
   [type |-> ty, session |-> [id |-> "s1"]]}
SparseEvents ==
  UNION {Sparse(ty) : ty \in {"session_start", "user_speak", "user_input_timeout",
                               "session_end", "assistant_speech_ended"}}
  \cup {[type |-> "user_speak", text |-> <<Space, "A">>],
        [type |-> "user_speak", session |-> [id |-> "s1"], text |-> <<Space, "A">>]}

ServeSparse ==
  /\ served < MaxSparse
  /\ \A w \in Workers : pc[w] = "idle"
  /\ \E e \in SparseEvents : do_POST(MainThread, Request(e))

NextSparse == ServeSparse \/ \E w \in Workers : Step(w)

SpecSparse == Init /\ [][NextSparse]_vars

\* ------------------------------------------------------------- event stream
\* the serial server handling a given stream of events of one id in order;
\* at the start the id has no record, or a record with one message, or a
\* thanked record (the notify call of the thank-you made) to which a further
\* message may have been appended
StreamEvents ==
  CallEvents({"s1"})
  \cup {[type |-> ty, session |-> [id |-> "s1"]] : ty \in {"assistant_speak", "barge_in"}}

StreamRecords ==
  {[caller |-> Unbekannt, messages |-> <<<<"A">>>>],
   Thanked([caller |-> Unbekannt, messages |-> <<<<"A">>>>]),
   Thanked([caller |-> Unbekannt, messages |-> <<<<"A">>, <<"B">>>>])}

InitStream ==
  /\ BEEP_AUDIO \in {NoBeep, BeepB64}
  /\ \/ /\ sessions = EmptyStore
        /\ heap = EmptyHeap
        /\ hist = [s \in SessionIds |-> NoHist]
        /\ notified = <<>>
     \/ \E r \in StreamRecords :
          /\ sessions = [s \in {"s1"} |-> 1]
          /\ heap = [o \in {1} |-> r]
          /\ hist = [s \in SessionIds |-> IF s = "s1" THEN HistOf(r) ELSE NoHist]
          /\ notified = IF Get(r, "thanked", FALSE)
                        THEN <<[id |-> "s1", by |-> "user_input_timeout",
                                caller |-> r.caller, messages |-> <<<<"A">>>>]>>
                        ELSE <<>>
  /\ lock = NoWorker
  /\ pc = [w \in Workers |-> "idle"]
  /\ ev = [w \in Workers |-> NoEvent]
  /\ data = [w \in Workers |-> NoObj]
  /\ caller = [w \in Workers |-> ""]
  /\ already_thanked = [w \in Workers |-> FALSE]
  /\ reply = [w \in Workers |-> None]
  /\ served = 0
  /\ inflight \in [1..MaxStream -> StreamEvents]
  /\ entry = [w \in Workers |-> NoEntry]
  /\ SECRET = NoSecret
  /\ status = [w \in Workers |-> NoStatus]
  /\ delivery = NoDelivery

\* the server accepts the next request of the stream when the one before is
\* answered; the stream is kept, `served` counts the requests accepted
DeliverNext ==
  /\ served < Len(inflight)
  /\ \A w \in Workers : pc[w] = "idle"
  /\ Dispatch(MainThread, inflight[served + 1])
  /\ served' = served + 1
  /\ UNCHANGED inflight

NextStream == DeliverNext \/ \E w \in Workers : Step(w)

SpecStream == InitStream /\ [][NextStream]_vars

\* ------------------------------------------------------------- two timeouts
\* one session is listening; two user_input_timeout events for it are in
\* flight, each on a worker of its own
InitTimeouts ==
  /\ BEEP_AUDIO \in {NoBeep, BeepB64}
  /\ \E r \in ListeningRecords \cup {Thanked(q) : q \in ListeningRecords} :
       /\ Get(r, "beeped", FALSE) => BEEP_AUDIO # NoBeep
       /\ Get(r, "thanked", FALSE) => r.messages # <<>>
       /\ heap = [o \in {1} |-> r]
       /\ hist = [s \in SessionIds |-> IF s = "s1" THEN HistOf(r) ELSE NoHist]
  /\ sessions = [s \in {"s1"} |-> 1]
  /\ lock = NoWorker
  /\ pc = [w \in Workers |-> "idle"]
  /\ ev = [w \in Workers |-> NoEvent]
  /\ data = [w \in Workers |-> NoObj]
  /\ caller = [w \in Workers |-> ""]
  /\ already_thanked = [w \in Workers |-> FALSE]
  /\ reply = [w \in Workers |-> None]
  /\ notified = <<>>
  /\ served = 0
  /\ inflight = <<[type |-> "user_input_timeout", session |-> [id |-> "s1"]],
                  [type |-> "user_input_timeout", session |-> [id |-> "s1"]]>>
  /\ entry = [w \in Workers |-> NoEntry]
  /\ SECRET = NoSecret
  /\ status = [w \in Workers |-> NoStatus]
  /\ delivery = NoDelivery

TimeoutsStep(w) ==
  \/ Deliver(w)
  \/ Acquire(w)
  \/ timeout_read(w)
  \/ timeout_decide(w)
  \/ timeout_mark(w)
  \/ timeout_notify(w)

NextTimeouts == \E w \in Workers : TimeoutsStep(w)

SpecTimeouts == InitTimeouts /\ [][NextTimeouts]_vars

\* ------------------------------------------------------------- lazy creation
\* the store is empty; two events for an id it does not know are in flight,
\* each on a worker of its own: two user_speak, or a user_speak and a
\* user_input_timeout
LazyPairs ==
  {<<a, b>> : a \in SpeakEvents({"s1"}), b \in SpeakEvents({"s1"})}
  \cup {<<a, [type |-> "user_input_timeout", session |-> [id |-> "s1"]]>> :
          a \in SpeakEvents({"s1"})}

InitLazy ==
  /\ BEEP_AUDIO \in {NoBeep, BeepB64}
  /\ sessions = EmptyStore
  /\ heap = EmptyHeap
  /\ lock = NoWorker
  /\ pc = [w \in Workers |-> "idle"]
  /\ ev = [w \in Workers |-> NoEvent]
  /\ data = [w \in Workers |-> NoObj]
  /\ caller = [w \in Workers |-> ""]
  /\ already_thanked = [w \in Workers |-> FALSE]
  /\ reply = [w \in Workers |-> None]
  /\ notified = <<>>
  /\ served = 0
  /\ inflight \in LazyPairs
  /\ hist = [s \in SessionIds |-> NoHist]
  /\ entry = [w \in Workers |-> NoEntry]
  /\ SECRET = NoSecret
  /\ status = [w \in Workers |-> NoStatus]
  /\ delivery = NoDelivery

LazyStep(w) ==
  \/ Deliver(w)
  \/ Acquire(w)
  \/ user_speak(w)
  \/ timeout_read(w)
  \/ timeout_decide(w)
  \/ timeout_mark(w)
  \/ timeout_notify(w)

NextLazy == \E w \in Workers : LazyStep(w)

SpecLazy == InitLazy /\ [][NextLazy]_vars

\* ------------------------------------------------------------- restart
\* one session is listening; a user_input_timeout and a session_start for it
\* are in flight, each on a worker of its own
InitRestart ==
  /\ BEEP_AUDIO \in {NoBeep, BeepB64}
  /\ \E r \in ListeningRecords :
       /\ Get(r, "beeped", FALSE) => BEEP_AUDIO # NoBeep
       /\ heap = [o \in {1} |-> r]
       /\ hist = [s \in SessionIds |-> IF s = "s1" THEN HistOf(r) ELSE NoHist]
  /\ sessions = [s \in {"s1"} |-> 1]
  /\ lock = NoWorker
  /\ pc = [w \in Workers |-> "idle"]
  /\ ev = [w \in Workers |-> NoEvent]
  /\ data = [w \in Workers |-> NoObj]
  /\ caller = [w \in Workers |-> ""]
  /\ already_thanked = [w \in Workers |-> FALSE]
  /\ reply = [w \in Workers |-> None]
  /\ notified = <<>>
  /\ served = 0
  /\ \E e \in StartEvents({"s1"}) :
       inflight = <<[type |-> "user_input_timeout", session |-> [id |-> "s1"]], e>>
  /\ entry = [w \in Workers |-> NoEntry]
  /\ SECRET = NoSecret
  /\ status = [w \in Workers |-> NoStatus]
  /\ delivery = NoDelivery

RestartStep(w) ==
  \/ Deliver(w)
  \/ Acquire(w)
  \/ session_start(w)
  \/ timeout_read(w)
  \/ timeout_decide(w)
  \/ timeout_mark(w)
  \/ timeout_notify(w)

NextRestart == \E w \in Workers : RestartStep(w)

SpecRestart == InitRestart /\ [][NextRestart]_vars

\* ------------------------------------------------------------- slow notify
\* one session is listening; an event that notifies for it and an event of
\* another session are in flight, each on a worker of its own.  Every step
\* of a worker is taken in the end, except the return of notify_clawdbot,
\* which may take arbitrarily long.
InitSlow ==
  /\ BEEP_AUDIO \in {NoBeep, BeepB64}
  /\ sessions = [s \in {"s1"} |-> 1]
  /\ heap = [o \in {1} |-> [caller |-> Unbekannt, messages |-> <<<<"A">>>>]]
  /\ hist = [s \in SessionIds |->
               IF s = "s1" THEN HistOf([caller |-> Unbekannt, messages |-> <<<<"A">>>>])
               ELSE NoHist]
  /\ lock = NoWorker
  /\ pc = [w \in Workers |-> "idle"]
  /\ ev = [w \in Workers |-> NoEvent]
  /\ data = [w \in Workers |-> NoObj]
  /\ caller = [w \in Workers |-> ""]
  /\ already_thanked = [w \in Workers |-> FALSE]
  /\ reply = [w \in Workers |-> None]
  /\ notified = <<>>
  /\ served = 0
  /\ \E ty \in {"user_input_timeout", "session_end"} : \E e \in CallEvents({"s2"}) :
       inflight = <<[type |-> ty, session |-> [id |-> "s1"]], e>>
  /\ entry = [w \in Workers |-> NoEntry]
  /\ SECRET = NoSecret
  /\ status = [w \in Workers |-> NoStatus]
  /\ delivery = NoDelivery

\* the steps of a worker outside of notify_clawdbot
LocalStep(w) ==
  \/ Deliver(w)
  \/ Acquire(w)
  \/ session_start(w)
  \/ user_speak(w)
  \/ timeout_read(w)
  \/ timeout_decide(w)
  \/ timeout_mark(w)
  \/ session_end(w)
  \/ speech_ended(w)

\* the return of notify_clawdbot
NotifyStep(w) == timeout_notify(w) \/ session_end_notify(w)

NextSlow == \E w \in Workers : LocalStep(w) \/ NotifyStep(w)

SpecSlow == InitSlow /\ [][NextSlow]_vars /\ \A w \in Workers : WF_vars(LocalStep(w))

\* ------------------------------------------------------------- vocabulary
\* the text between the first and the last non-space character
Trimmed(raw) ==
  LET idx == {i \in 1..Len(raw) : raw[i] # Space}
      lo == CHOOSE i \in idx : \A j \in idx : i <= j
      hi == CHOOSE i \in idx : \A j \in idx : j <= i
  IN  IF idx = {} THEN <<>> ELSE SubSeq(raw, lo, hi)

RawText(e) == IF "text" \in DOMAIN e THEN e.text ELSE <<>>

Quiescent == inflight = <<>> /\ \A w \in Workers : pc[w] = "idle"

Live(s) == s \in DOMAIN sessions
Rec(s) == RecordOf(sessions, heap, s)
IsThanked(d) == "thanked" \in DOMAIN d /\ d["thanked"]
MessagesOf(d) == IF "messages" \in DOMAIN d THEN d["messages"] ELSE <<>>

NotifiedFor(s) == {i \in 1..Len(notified) : notified[i].id = s}

\* worker w returns from the handler of an event of type t in this step
Returns(w, t) == pc[w] # "idle" /\ pc'[w] = "idle" /\ ev[w].type = t

\* ------------------------------------------------------------- C1
\* C1: once every event is processed, a session id for which a non-blank
\* user_speak or a session_end was processed has had exactly one notify call.
ExactlyOneNotification ==
  \A s \in SessionIds :
    (Quiescent /\ (hist[s].spoke \/ hist[s].ended)) => Cardinality(NotifiedFor(s)) = 1

\* ------------------------------------------------------------- C3
\* C3: while the record of a session id stays in the store, a thanked flag
\* that is true stays true.
ThankedNeverResets ==
  [][\A s \in SessionIds :
       (Live(s) /\ IsThanked(Rec(s)) /\ s \in DOMAIN sessions')
         => IsThanked(RecordOf(sessions', heap', s))]_vars

\* ------------------------------------------------------------- C4
\* C4: with the beep blob available, two consecutive assistant_speech_ended
\* events for an id, the first finding no beep played yet (or no record),
\* are answered by one audio action and then by no action.
BeepExactlyOnce ==
  \A s \in SessionIds :
    (BEEP_AUDIO # NoBeep /\ Len(hist[s].run) = 2 /\ ~hist[s].run[1].before)
      => (hist[s].run[1].type = "audio" /\ hist[s].run[2].type = "none")

\* ------------------------------------------------------------- C5
\* C5: every notify call carries the trimmed non-blank texts of the user_speak
\* events processed for the session so far, in order.
NotifyCarriesHeard ==
  [][Len(notified') > Len(notified)
       => LET n == notified'[Len(notified')]
          IN  n.messages = hist[n.id].heard]_vars

\* ------------------------------------------------------------- C7
\* C7: whatever the state of the session (no record, listening, thanked), the
\* handling of a user_speak returns no action and makes no notify call; the
\* record's messages afterwards are the messages before (none without a
\* record) with the trimmed text appended when that text is not empty, and
\* the same messages when the text is blank.
UserSpeakAppendsTrimmed ==
  [][\A w \in Workers :
       Returns(w, "user_speak") =>
         LET sid == ev[w].session.id
             text == Trimmed(RawText(ev[w]))
             old == MessagesOf(Rec(sid))
         IN  /\ reply'[w] = [type |-> "none"]
             /\ notified' = notified
             /\ sid \in DOMAIN sessions'
             /\ MessagesOf(RecordOf(sessions', heap', sid))
                  = IF text = <<>> THEN old ELSE old \o <<text>>]_vars

\* a thanked record took a further utterance: its messages are longer than
\* the ones notified, and the last reply was no action
UserSpeakAfterThanksSeen ==
  /\ Quiescent
  /\ Live("s1") /\ IsThanked(Rec("s1"))
  /\ Len(notified) = 1
  /\ Rec("s1").messages = notified[1].messages \o <<<<"B">>>>
  /\ reply[MainThread] = [type |-> "none"]

\* ------------------------------------------------------------- C8
\* C8: a user_input_timeout that finds non-empty messages and thanked not set
\* sets thanked, makes exactly one notify call with the record's caller and
\* all its messages, and returns the thank-you speak action; a session_end
\* that finds thanked set returns no action and makes no notify call.
TimeoutThanksOnce ==
  [][\A w \in Workers :
       LET sid == ev[w].session.id
           rec == entry[w].rec
       IN  /\ (Returns(w, "user_input_timeout")
                 /\ MessagesOf(rec) # <<>> /\ ~IsThanked(rec))
               => /\ reply'[w] = [type |-> "speak", session_id |-> sid, text |-> THANKS]
                  /\ notified' = SubSeq(notified, 1, entry[w].n)
                       \o <<[id |-> sid, by |-> "user_input_timeout",
                             caller |-> rec.caller, messages |-> rec.messages]>>
                  /\ sid \in DOMAIN sessions'
                  /\ RecordOf(sessions', heap', sid)
                       = [k \in DOMAIN rec \cup {"thanked"} |->
                            IF k = "thanked" THEN TRUE ELSE rec[k]]
           /\ (Returns(w, "session_end") /\ IsThanked(rec))
               => /\ reply'[w] = [type |-> "none"]
                  /\ notified' = SubSeq(notified, 1, entry[w].n)]_vars

\* the call was thanked by a timeout and then ended: one notify call, made by
\* the timeout, and the record is gone
ThankedThenEndedSeen ==
  /\ Quiescent
  /\ hist["s1"].ended /\ ~Live("s1")
  /\ Len(notified) = 1
  /\ notified[1].by = "user_input_timeout"
  /\ notified[1].messages = <<<<"A">>, <<"B">>>>
  /\ reply[MainThread] = [type |-> "none"]

\* ------------------------------------------------------------- C9
\* C9: a user_input_timeout that finds no messages returns the re-prompt with
\* a 15 second timeout, makes no notify call, leaves thanked unset and leaves
\* an existing record as it was.
TimeoutReprompts ==
  [][\A w \in Workers :
       LET sid == ev[w].session.id
           rec == entry[w].rec
       IN  (Returns(w, "user_input_timeout") /\ MessagesOf(rec) = <<>>)
             => /\ reply'[w] = [type |-> "speak", session_id |-> sid, text |-> REPROMPT,
                                user_input_timeout_seconds |-> 15]
                /\ notified' = notified
                /\ Len(notified) = entry[w].n
                /\ sid \in DOMAIN sessions'
                /\ ~IsThanked(RecordOf(sessions', heap', sid))
                /\ rec # NoEvent => RecordOf(sessions', heap', sid) = rec]_vars

\* a started call was re-prompted on a repeated silent timeout
RepromptRepeatedSeen ==
  /\ Quiescent
  /\ served = 3
  /\ Live("s1") /\ Rec("s1") = [caller |-> "+491701234567", messages |-> <<>>, beeped |-> FALSE]
  /\ reply[MainThread].type = "speak" /\ reply[MainThread].text = REPROMPT
  /\ notified = <<>>

\* ------------------------------------------------------------- C10
\* C10: a session_end returns no action and leaves no record for its id; it
\* makes a notify call exactly when the removed record's thanked was not true,
\* with the record's caller and messages, or with the default caller and no
\* messages when there was no record.
SessionEndRemovesAndNotifies ==
  [][\A w \in Workers :
       LET sid == ev[w].session.id
           rec == entry[w].rec
       IN  Returns(w, "session_end")
             => /\ reply'[w] = [type |-> "none"]
                /\ sid \notin DOMAIN sessions'
                /\ notified' = SubSeq(notified, 1, entry[w].n) \o
                     (IF IsThanked(rec) THEN <<>>
                      ELSE <<[id |-> sid, by |-> "session_end",
                              caller |-> IF rec = NoEvent THEN "unbekannt" ELSE rec.caller,
                              messages |-> IF rec = NoEvent THEN <<>> ELSE rec.messages]>>)]_vars

\* a call with a message ended without a thank-you, and a session_end for an
\* id without record followed: two notify calls by session_end
EndNotifiedSeen ==
  /\ Quiescent
  /\ ~Live("s1")
  /\ Len(notified) = 2
  /\ notified[1] = [id |-> "s1", by |-> "session_end", caller |-> "+491701234567",
                    messages |-> <<<<"A">>>>]
  /\ notified[2] = [id |-> "s1", by |-> "session_end", caller |-> "unbekannt",
                    messages |-> <<>>]

\* ------------------------------------------------------------- C2
\* C2: when the user_input_timeout and the session_end of a call with
\* messages and without thank-you have both been handled, in whatever
\* interleaving, exactly one notify call has been made (and never a second).
RaceNotifiesOnce ==
  /\ Len(notified) <= 1
  /\ Quiescent => Len(notified) = 1

\* the session_end removed the record between the two locked steps of the
\* timeout: the timeout failed on the missing key, the session_end notified
RaceInterleavedSeen ==
  /\ Quiescent
  /\ \E w \in Workers : reply[w] = [type |-> "KeyError"]
  /\ Len(notified) = 1 /\ notified[1].by = "session_end"
  /\ notified[1].messages = <<<<"A">>, <<"B">>>>

\* ------------------------------------------------------------- C6
\* C6: the record of a session id (its fields and its presence in the store)
\* changes only in a step of the handling of an event with that id, and every
\* notify call made for an id carries only texts received in user_speak
\* events with that id.
SessionIsolation ==
  /\ [][\A s \in SessionIds :
          (RecordOf(sessions', heap', s) # Rec(s))
            => \E w \in Workers : pc[w] # "idle" /\ ev[w].session.id = s]_vars
  /\ [](\A i \in 1..Len(notified) :
          \A j \in 1..Len(notified[i].messages) :
            notified[i].messages[j] \in hist[notified[i].id].received)

\* two calls are under way with different messages; the first was notified
\* with its own message while the second keeps its record
TwoCallsSeen ==
  /\ Quiescent
  /\ Live("s1") /\ Live("s2")
  /\ Rec("s2") = [caller |-> "unbekannt", messages |-> <<<<"B">>>>]
  /\ notified = <<[id |-> "s1", by |-> "user_input_timeout", caller |-> "unbekannt",
                   messages |-> <<<<"A">>>>]>>

\* ------------------------------------------------------------- C11
\* C11: after a session_end was processed for an id, a step that creates a
\* record for that id creates it with no thanked flag, no beep played and no
\* message but the trimmed text of the creating user_speak; its caller is the
\* one the creating event gives or the unknown marker; and a notify call made
\* for the id carries only texts heard since that session_end, and the
\* defaults when the id has no record.
FreshAfterEnd ==
  [][\A s \in SessionIds :
       hist[s].ended =>
         /\ (~Live(s) /\ s \in DOMAIN sessions') =>
              \E w \in Workers :
                LET r == RecordOf(sessions', heap', s)
                    e == ev[w]
                IN  /\ pc[w] # "idle" /\ SessionId(e) = s
                    /\ ~IsThanked(r)
                    /\ ("beeped" \in DOMAIN r => r["beeped"] = FALSE)
                    /\ MessagesOf(r) =
                         (IF e.type = "user_speak" /\ Trimmed(RawText(e)) # <<>>
                          THEN <<Trimmed(RawText(e))>> ELSE <<>>)
                    /\ r["caller"] =
                         (IF e.type = "session_start" /\ "from_phone_number" \in DOMAIN e.session
                          THEN e.session.from_phone_number ELSE "unbekannt")
         /\ (Len(notified') > Len(notified) /\ notified'[Len(notified')].id = s) =>
              LET n == notified'[Len(notified')]
              IN  /\ \A j \in 1..Len(n.messages) :
                       \E k \in 1..Len(hist[s].heard) : n.messages[j] = hist[s].heard[k]
                  /\ \A w \in Workers :
                       (pc[w] # "idle" /\ entry[w].rec = NoEvent /\ n.by = "session_end")
                         => (n.caller = "unbekannt" /\ n.messages = <<>>)]_vars

\* an id was used, notified with "A" and ended; it is in use again with "B"
\* as its only message and has been notified with that alone
ReusedIdSeen ==
  /\ Quiescent
  /\ hist["s1"].ended /\ Live("s1")
  /\ MessagesOf(Rec("s1")) = <<<<"B">>>>
  /\ Len(notified) = 2
  /\ notified[1].messages = <<<<"A">>>> /\ notified[1].by = "session_end"
  /\ notified[2].messages = <<<<"B">>>> /\ notified[2].by = "user_input_timeout"

\* ------------------------------------------------------------- C16
\* C16: a user_speak or user_input_timeout that is the first event of an id
\* creates a record with the unknown-caller marker, and the texts collected in
\* it are still in the record's messages after a later session_start of the
\* same id is processed.
LazyUtterancesSurviveStart ==
  /\ [][\A s \in SessionIds : \A w \in Workers :
          (pc[w] # "idle" /\ SessionId(ev[w]) = s /\ ~Live(s) /\ s \in DOMAIN sessions'
           /\ ev[w].type \in {"user_speak", "user_input_timeout"})
            => RecordOf(sessions', heap', s)["caller"] = "unbekannt"]_vars
  /\ [][\A s \in SessionIds : \A w \in Workers :
          (Returns(w, "session_start") /\ SessionId(ev[w]) = s /\ entry[w].rec # NoEvent)
            => \A j \in 1..Len(MessagesOf(entry[w].rec)) :
                 /\ j <= Len(MessagesOf(RecordOf(sessions', heap', s)))
                 /\ MessagesOf(RecordOf(sessions', heap', s))[j] = MessagesOf(entry[w].rec)[j]]_vars

\* ------------------------------------------------------------- C17
\* C17: a step of the handling of an event other than session_end leaves the
\* messages of a record that is in the store a prefix of its messages after
\* the step.
MessagesOnlyGrow ==
  [][\A s \in SessionIds :
       (Live(s) /\ \A w \in Workers : pc[w] # "idle" => ev[w].type # "session_end")
         => /\ s \in DOMAIN sessions'
            /\ Len(MessagesOf(Rec(s))) <= Len(MessagesOf(RecordOf(sessions', heap', s)))
            /\ SubSeq(MessagesOf(RecordOf(sessions', heap', s)), 1, Len(MessagesOf(Rec(s))))
                 = MessagesOf(Rec(s))]_vars

\* ------------------------------------------------------------- C18
\* C18: the caller of a record that is in the store is the same after every
\* step that leaves the id in the store.
CallerNeverChanges ==
  [][\A s \in SessionIds :
       (Live(s) /\ s \in DOMAIN sessions')
         => RecordOf(sessions', heap', s)["caller"] = Rec(s)["caller"]]_vars

\* ------------------------------------------------------------- C19
\* C19: of two user_input_timeout events handled at the same time for a
\* record with messages and no thanked flag, at most one is answered by the
\* thank-you and at most one notify call is made.
TimeoutsThankOnce ==
  /\ Len(notified) <= 1
  /\ Cardinality({w \in Workers : pc[w] = "idle" /\ status[w] = "200"
                                   /\ reply[w].type = "speak" /\ reply[w].text = THANKS}) <= 1

\* ------------------------------------------------------------- C20
\* C20: when two user_speak events, or a user_speak and a user_input_timeout,
\* for an id the store does not know are handled at the same time, the store
\* ends with one record for the id, created with the unknown-caller marker,
\* whose messages are the trimmed non-blank texts of the user_speak events in
\* the order their handlers ran.
LazyCreationAtomic ==
  Quiescent =>
    /\ DOMAIN sessions = {"s1"}
    /\ Cardinality(DOMAIN heap) = 1
    /\ Rec("s1")["caller"] = "unbekannt"
    /\ MessagesOf(Rec("s1")) = hist["s1"].heard
    /\ {MessagesOf(Rec("s1"))[j] : j \in 1..Len(MessagesOf(Rec("s1")))}
         = hist["s1"].received \ {<<>>}

\* both user_speak events of the pair left their text in the one record
BothTextsKept ==
  /\ Quiescent
  /\ served = 2
  /\ Rec("s1") = [caller |-> "unbekannt", messages |-> <<<<"B">>, <<"A">>>>]

\* ------------------------------------------------------------- C12
\* C12: a request answered with 401 or 400 does not reach handle_event: the
\* store, the notify calls, the handler state and the last action are as
\* before; and with no secret configured no request is answered with 401.
RejectedRequestsChangeNothing ==
  /\ [][\A w \in Workers :
          (served' # served /\ status'[w] \in {"401", "400"})
            => /\ sessions' = sessions /\ heap' = heap
               /\ notified' = notified
               /\ pc' = pc /\ ev' = ev /\ reply' = reply /\ hist' = hist]_vars
  /\ [](SECRET = "" => \A w \in Workers : status[w] # "401")
  /\ [](\A w \in Workers : status[w] = "401" => SECRET # "")

\* with a secret configured, a call has left a message and the last request
\* was rejected for its token: the record is still there
RejectedWhileListening ==
  /\ SECRET = "geheim"
  /\ status[MainThread] = "401"
  /\ Live("s1") /\ MessagesOf(Rec("s1")) = <<<<"A">>>>
  /\ notified = <<>>
  /\ served = 2

\* ------------------------------------------------------------- C14
\* C14: the step in which a user_input_timeout or session_end handler calls
\* notify makes exactly one call, whatever its outcome, and ends the handler
\* with the thank-you (200) for the timeout and no action (204) for the
\* session_end; the store is as before the call, with the record marked
\* thanked after the timeout and no record after the session_end.
NotifyOutcomeIgnored ==
  [][\A w \in Workers :
       (pc[w] \in {"to_notify", "se_notify"})
         => /\ delivery' \in {"delivered", "rejected", "timed out", "connection error"}
            /\ Len(notified') = Len(notified) + 1
            /\ pc'[w] = "idle"
            /\ sessions' = sessions
            /\ \A s \in DOMAIN sessions : RecordOf(sessions', heap', s) = Rec(s)
            /\ IF ev[w].type = "user_input_timeout"
               THEN /\ reply'[w].type = "speak" /\ reply'[w].text = THANKS
                    /\ status'[w] = "200"
                    /\ IsThanked(Rec(ev[w].session.id))
               ELSE /\ reply'[w] = [type |-> "none"]
                    /\ status'[w] = "204"
                    /\ ~Live(ev[w].session.id)]_vars

\* the delivery of the notification timed out and the caller was thanked
FailedDeliveryThanked ==
  /\ Quiescent
  /\ delivery = "timed out"
  /\ Len(notified) = 1 /\ notified[1].messages = <<<<"A">>>>
  /\ reply[MainThread].type = "speak" /\ reply[MainThread].text = THANKS
  /\ status[MainThread] = "200"
  /\ IsThanked(Rec("s1"))

\* ------------------------------------------------------------- C13
\* C13: a request that has been handled was answered with 200 when
\* handle_event returned an action and with 204 when it returned none; no
\* handler ends with an exception.
EveryRequestAnswered ==
  \A w \in Workers :
    (pc[w] = "idle" /\ status[w] \notin {"none", "401", "400"})
      => \/ status[w] = "200" /\ reply[w] # [type |-> "none"]
         \/ status[w] = "204" /\ reply[w] = [type |-> "none"]

\* ------------------------------------------------------------- C15
\* C15: an event without session, session.id, session.from_phone_number or
\* text is answered with 200 or 204; it is filed under the empty id when the
\* id is missing; a user_speak without text leaves every record as it was or
\* creates one with no message; a session_start without from_phone_number
\* leaves a record whose caller is the unknown-caller marker.
MissingFieldsDefaulted ==
  [][\A w \in Workers :
       (pc[w] # "idle" /\ pc'[w] = "idle")
         => LET e == ev[w]
                sid == IF "session" \in DOMAIN e /\ "id" \in DOMAIN e.session
                       THEN e.session.id ELSE ""
                new == RecordOf(sessions', heap', sid)
                old == RecordOf(sessions, heap, sid)
            IN  /\ status'[w] \in {"200", "204"}
                /\ \A s \in (DOMAIN sessions \cup DOMAIN sessions') \ {sid} :
                     RecordOf(sessions', heap', s) = RecordOf(sessions, heap, s)
                /\ (e.type = "user_speak" /\ "text" \notin DOMAIN e)
                     => /\ reply'[w] = [type |-> "none"]
                        /\ new = (IF sid \in DOMAIN sessions THEN old
                                  ELSE [caller |-> "unbekannt", messages |-> <<>>])
                /\ (e.type = "session_start"
                    /\ ("session" \notin DOMAIN e \/ "from_phone_number" \notin DOMAIN e.session))
                     => /\ new = [caller |-> "unbekannt", messages |-> <<>>, beeped |-> FALSE]
                        /\ reply'[w].type = "speak" /\ reply'[w].session_id = sid]_vars

\* a call without any session object was greeted, left a message and was
\* thanked, all under the empty id with the unknown caller
AnonymousCallSeen ==
  /\ Quiescent
  /\ DOMAIN sessions = {""}
  /\ RecordOf(sessions, heap, "")
       = [caller |-> "unbekannt", messages |-> <<<<"A">>>>, beeped |-> FALSE, thanked |-> TRUE]
  /\ Len(notified) = 1 /\ notified[1].caller = "unbekannt" /\ notified[1].id = ""

\* ------------------------------------------------------------- C22
\* C22: a user_input_timeout that finds the thanked flag of its id's record
\* set is answered with no action (204), makes no notify call and leaves the
\* record as it found it, whatever was appended to messages after the
\* thank-you.
ThankedTimeoutIsNoOp ==
  [][\A w \in Workers :
       (Returns(w, "user_input_timeout") /\ IsThanked(entry[w].rec))
         => /\ reply'[w] = [type |-> "none"]
            /\ status'[w] = "204"
            /\ notified' = notified /\ Len(notified) = entry[w].n
            /\ sessions' = sessions
            /\ RecordOf(sessions', heap', ev[w].session.id) = entry[w].rec]_vars

\* the caller was thanked for "A", said "B" afterwards, and the timeout that
\* followed changed nothing: one notify call, with "A" alone
LateUtteranceIgnored ==
  /\ served = 2 /\ \A w \in Workers : pc[w] = "idle"
  /\ inflight[1] = [type |-> "user_speak", session |-> [id |-> "s1"], text |-> <<"B", " ">>]
  /\ inflight[2] = [type |-> "user_input_timeout", session |-> [id |-> "s1"]]
  /\ Rec("s1") = [caller |-> "unbekannt", messages |-> <<<<"A">>, <<"B">>>>, thanked |-> TRUE]
  /\ Len(notified) = 1 /\ notified[1].messages = <<<<"A">>>>
  /\ reply[MainThread] = [type |-> "none"] /\ status[MainThread] = "204"

\* ------------------------------------------------------------- C23
\* C23: the request of an assistant_speak event or of an event of a type the
\* handler does not know is answered with no action (204) in the step that
\* accepts it: no handler is entered, no notify call is made, and the store
\* and its records are as before, also when the id has no record.
UnknownEventsChangeNothing ==
  [][(/\ served' = served + 1
      /\ inflight[served + 1].type \notin {"session_start", "user_speak", "user_input_timeout",
                                  "session_end", "assistant_speech_ended"})
       => /\ pc' = pc
          /\ reply'[MainThread] = [type |-> "none"]
          /\ status'[MainThread] = "204"
          /\ notified' = notified
          /\ sessions' = sessions /\ heap' = heap]_vars

\* an assistant_speak and an event of unknown type were handled for an id
\* without a record, and the store is still empty
UnknownEventsOnEmptyStore ==
  /\ served = 2 /\ \A w \in Workers : pc[w] = "idle"
  /\ sessions = EmptyStore /\ heap = EmptyHeap /\ notified = <<>>
  /\ status[MainThread] = "204"
  /\ inflight[1].type = "assistant_speak" /\ inflight[2].type = "barge_in"

\* ------------------------------------------------------------- C24
\* C24: an id that is in the store is in the store after every step, except
\* a step of the handler of a session_end event with that id; so the id of a
\* call for which no session_end was processed stays in the store.
OnlySessionEndRemoves ==
  /\ [][\A s \in SessionIds :
          (Live(s) /\ s \notin DOMAIN sessions')
            => \E w \in Workers :
                 pc[w] # "idle" /\ ev[w].type = "session_end" /\ ev[w].session.id = s]_vars
  /\ [][(\A w \in Workers : pc[w] # "idle" => ev[w].type # "session_end")
          => \A s \in DOMAIN sessions : s \in DOMAIN sessions']_vars

\* the call s2 has ended and its record is gone; the call s1 was thanked, no
\* session_end came for it, and its record is still there
UnendedCallKept ==
  /\ Quiescent
  /\ hist["s2"].ended /\ ~Live("s2")
  /\ ~hist["s1"].ended /\ Live("s1") /\ IsThanked(Rec("s1"))

\* ------------------------------------------------------------- C26
\* C26: once the thank-you notification of a call has been sent and as long
\* as no session_end of the call is processed, a non-blank user_speak still
\* appends its trimmed text to the messages, and no step makes a further
\* notify call: not the user_input_timeout events that follow and not the
\* session_end.
LateUtterancesNeverNotified ==
  [][\A s \in SessionIds :
       (/\ ~hist[s].ended
        /\ \E i \in 1..Len(notified) :
             notified[i].id = s /\ notified[i].by = "user_input_timeout")
         => /\ notified' = notified
            /\ \A w \in Workers :
                 (Returns(w, "user_speak") /\ ev[w].session.id = s
                  /\ Trimmed(RawText(ev[w])) # <<>> /\ entry[w].rec # NoEvent)
                   => MessagesOf(RecordOf(sessions', heap', s))
                        = Append(MessagesOf(entry[w].rec), Trimmed(RawText(ev[w])))]_vars

\* ------------------------------------------------------------- C25
\* C25: in every state, a record of the store whose thanked flag is true has
\* at least one message.
ThankedHasMessages ==
  \A s \in DOMAIN sessions : IsThanked(Rec(s)) => MessagesOf(Rec(s)) # <<>>

\* ------------------------------------------------------------- C21
\* C21: no worker holds the lock while it is inside the notify call, and
\* while a worker is inside the notify call, however long, a worker that has
\* started to handle an event gets the lock and goes on until its handler
\* has returned or has reached its own notify call.
LockFreeDuringNotify ==
  /\ [](\A w \in Workers : pc[w] \in {"to_notify", "se_notify"} => lock # w)
  /\ \A w \in Workers :
       (pc[w] \notin {"idle", "to_notify", "se_notify"})
         ~> (pc[w] \in {"idle", "to_notify", "se_notify"})

\* both workers are inside the notify call, for different sessions: the one
\* that came second took and released the lock while the first was inside
BothInsideNotify ==
  /\ pc["w1"] = "to_notify" /\ ev["w1"].session.id = "s1"
  /\ pc["w2"] = "se_notify" /\ ev["w2"].session.id = "s2"
  /\ lock = "free"

====
